---- MODULE Spec2Model ----
(***************************************************************************)
(* A model of hourglass.py, the playout scheduler of the Project Aries     *)
(* STAR feeds: the slot clock, the fitting selector, the play queue and    *)
(* its refill, the filler rotation and the scheduler's control loop.       *)
(*                                                                         *)
(* Time is the wall clock datetime.now(): `clock` counts whole seconds     *)
(* since midnight of day 0 and `millisecond` is the sub-second part.       *)
(* Durations are whole seconds.                                            *)
(***************************************************************************)
EXTENDS Integers, Sequences, FiniteSets, TLC

VARIABLES
    SLOT_MINUTE,          \* conf["SLOT_MINUTE"]
    SLOT_DURATION,        \* conf["SLOT_DURATION"]
    COMMERCIAL_PADDING,   \* conf["COMMERCIAL_PADDING"]
    clock,                \* datetime.now(), whole seconds since day 0, 00:00:00
    millisecond,          \* datetime.now().millisecond, in milliseconds
    fs,                   \* the storage roots: the files each folder holds
    dirs,                 \* the storage roots that exist just now
    faults,               \* how many times the storage has changed so far
    ffprobe,              \* what ffprobe reports for each file (0: it fails)
    duration_cache,       \* duration_cache
    play_queue,           \* play_queue
    recent_fillers,       \* recent_fillers, a deque(maxlen=5)
    last_slot_hour,       \* scheduler's last_slot_hour
    seconds_to_slot,      \* scheduler's seconds_to_slot
    max_episode_duration, \* scheduler's max_episode_duration
    fitting_episodes,     \* scheduler's fitting_episodes
    fit_index,            \* position of `for ep in fitting_episodes`
    seconds_remaining,    \* play_filler_until_slot's seconds_remaining
    remaining,            \* is_slot_time's remaining, in milliseconds
    startup_time,         \* scheduler's startup_time
    pc,                   \* where the scheduler stands
    ret,                  \* where the running refill_queue() returns to
    fret,                 \* where the running play_filler_until_slot() returns to
    plays,                \* the PLAY commands the last step dispatched, in order
    slot_fires,           \* the instants at which execute_slot() played a clip
    held,                 \* the queue as `Holding next queued item` left it
    observed              \* the call under observation: arguments and result

vars == <<SLOT_MINUTE, SLOT_DURATION, COMMERCIAL_PADDING, clock, millisecond,
          fs, dirs, faults, ffprobe, duration_cache, play_queue,
          recent_fillers, last_slot_hour, seconds_to_slot,
          max_episode_duration, fitting_episodes, fit_index,
          seconds_remaining, remaining, startup_time, pc, ret, fret, plays,
          slot_fires, held, observed>>

(***************************************************************************)
(* Program constants.                                                      *)
(***************************************************************************)
PLAYER_SLEEP == 1
QUEUE_MAX_SIZE == 5
RECENT_MAXLEN == 5
SLOT_TOLERANCE == 60
FITTING_LOOKAHEAD == 600
SAFETY_MARGIN == 2

Hour == 3600
Milli == 1000

\* Python's None: for a path, for last_slot_hour, and for a list of entries.
NoFile == "None"
NoHour == -1
NoEntries == <<>>

Max(a, b) == IF a >= b THEN a ELSE b
Abs(a) == IF a >= 0 THEN a ELSE 0 - a

(***************************************************************************)
(* datetime fields of the instant `c` seconds after day 0, 00:00:00.       *)
(***************************************************************************)
HourOf(c) == (c \div Hour) % 24
MinuteOf(c) == (c \div 60) % 60
SecondOf(c) == c % 60

(***************************************************************************)
(* time_until_next_slot(), in milliseconds, at the instant c s + ms        *)
(* milliseconds: now.replace(minute=SLOT_MINUTE, second=0, millisecond=0), *)
(* one hour later when now.minute > SLOT_MINUTE or now.minute =            *)
(* SLOT_MINUTE and now.second > 0; max(0, next_slot - now).                *)
(***************************************************************************)
next_slot(c, slot_minute) ==
    LET replaced == (c - MinuteOf(c) * 60 - SecondOf(c)) + slot_minute * 60
    IN  IF \/ MinuteOf(c) > slot_minute
           \/ (MinuteOf(c) = slot_minute /\ SecondOf(c) > 0)
        THEN replaced + Hour
        ELSE replaced

time_until_next_slot(c, ms, slot_minute) ==
    Max(0, (next_slot(c, slot_minute) - c) * Milli - ms)

(***************************************************************************)
(* The storage roots.  EPISODES_FOLDER holds one folder per show, each     *)
(* holding episode files; FILLER_FOLDER holds filler files; SLOT_FOLDER    *)
(* holds the slot's .ts files.  `fs` is what each root holds while it      *)
(* exists, `dirs` the roots that exist.                                    *)
(***************************************************************************)
EPISODES_FOLDER == "episodes"
FILLER_FOLDER == "fillers"
SLOT_FOLDER == "slots"
Folders == {EPISODES_FOLDER, FILLER_FOLDER, SLOT_FOLDER}
Shows == {"showA", "showB"}
EpisodeFiles == {"a1", "a2", "b1"}
FillerFiles == {"f1", "f2"}
SlotFiles == {"slot1"}
Files == EpisodeFiles \cup FillerFiles \cup SlotFiles
ShowOf(ep) == IF ep \in {"a1", "a2"} THEN "showA" ELSE "showB"

\* Path(path).exists()
exists(path) ==
    \/ EPISODES_FOLDER \in dirs /\ path \in fs.episodes
    \/ FILLER_FOLDER \in dirs /\ path \in fs.fillers
    \/ SLOT_FOLDER \in dirs /\ path \in fs.slots

\* [f for f in folder.iterdir() if f.is_file() and f.suffix ... ] of a show
episode_candidates(show) == {e \in fs.episodes : ShowOf(e) = show}

\* the sequences that enumerate the set S once each
Perms(S) ==
    {s \in [1..Cardinality(S) -> S] : \A i, j \in DOMAIN s : s[i] = s[j] => i = j}

\* random.shuffle(show_dirs), then each show's episodes shuffled: the
\* orders in which the single search meets the episodes
ShowByShowOrders ==
    {s \in Perms(fs.episodes) :
        \A i, j, k \in DOMAIN s :
            (i < j /\ j < k /\ ShowOf(s[i]) = ShowOf(s[k]))
                => ShowOf(s[j]) = ShowOf(s[i])}

(***************************************************************************)
(* get_video_duration(file_path): the cached value, else ffprobe's answer, *)
(* which is then cached (0 when the probe fails).                          *)
(***************************************************************************)
\* a faulty get_video_duration(): ffprobe is asked every time
get_video_duration_uncached(cache, f) == ffprobe[f]

get_video_duration(cache, f) ==
    IF f \in DOMAIN cache THEN cache[f] ELSE ffprobe[f]

\* duration_cache after get_video_duration was called on each file of S
cache_after(cache, S) ==
    [f \in DOMAIN cache \cup S |-> get_video_duration(cache, f)]

Entry(path, type, duration) ==
    [path |-> path, type |-> type, duration |-> duration]

(***************************************************************************)
(* get_random_filler(): the fillers not in recent_fillers; when there is   *)
(* none, recent_fillers is cleared and every filler is a candidate;        *)
(* random.choice of the candidates, or None.  The result is the pair of    *)
(* the chosen filler and recent_fillers as the call leaves it.             *)
(***************************************************************************)
InSeq(x, s) == \E i \in DOMAIN s : s[i] = x

\* a faulty get_random_filler(): recent_fillers is not cleared when every
\* filler is recent
get_random_filler_keeping(recent) ==
    LET fresh == {f \in fs.fillers : ~InSeq(f, recent)}
    IN  IF fresh # {}
        THEN {[filler |-> f, recent |-> recent] : f \in fresh}
        ELSE IF fs.fillers # {}
             THEN {[filler |-> f, recent |-> recent] : f \in fs.fillers}
             ELSE {[filler |-> NoFile, recent |-> recent]}

get_random_filler(recent) ==
    LET fresh == {f \in fs.fillers : ~InSeq(f, recent)}
    IN  IF fresh # {}
        THEN {[filler |-> f, recent |-> recent] : f \in fresh}
        ELSE IF fs.fillers # {}
             THEN {[filler |-> f, recent |-> <<>>] : f \in fs.fillers}
             ELSE {[filler |-> NoFile, recent |-> <<>>]}

\* recent_fillers.append(filler) on a deque(maxlen=5)
recent_append(recent, f) ==
    IF Len(recent) >= RECENT_MAXLEN THEN Append(Tail(recent), f)
    ELSE Append(recent, f)

(***************************************************************************)
(* get_fitting_episode(max_duration).                                      *)
(***************************************************************************)
\* the single search over the episodes in the order met
RECURSIVE single_scan(_, _, _, _, _, _)
single_scan(order, k, best, smallest_gap, max_duration, cache) ==
    IF k > Len(order) THEN best
    ELSE LET duration == get_video_duration(cache, order[k])
             gap == max_duration - duration
         IN  IF 1 < duration /\ duration <= max_duration /\ gap < smallest_gap
             THEN single_scan(order, k + 1,
                              <<Entry(order[k], "EPISODE", duration)>>,
                              gap, max_duration, cache)
             ELSE single_scan(order, k + 1, best, smallest_gap,
                              max_duration, cache)

\* a faulty single search: the first episode that fits, not the closest fit
best_single_first_fit(order, max_duration, cache) ==
    LET fits == {k \in DOMAIN order :
                    /\ 1 < get_video_duration(cache, order[k])
                    /\ get_video_duration(cache, order[k]) <= max_duration}
        first == CHOOSE k \in fits : \A j \in fits : k <= j
    IN  IF fits = {} THEN NoEntries
        ELSE <<Entry(order[first], "EPISODE",
                     get_video_duration(cache, order[first]))>>

best_single(order, max_duration, cache) ==
    single_scan(order, 1, NoEntries, max_duration, max_duration, cache)

\* the pair search: for i in range(len), for j in range(i + 1, len)
RECURSIVE pair_scan(_, _, _, _, _, _, _)
pair_scan(all_eps, i, j, best, smallest_pair_gap, max_duration, cache) ==
    IF i > Len(all_eps) THEN best
    ELSE IF j > Len(all_eps)
    THEN pair_scan(all_eps, i + 1, i + 2, best, smallest_pair_gap,
                   max_duration, cache)
    ELSE LET d1 == get_video_duration(cache, all_eps[i])
             d2 == get_video_duration(cache, all_eps[j])
             total == d1 + d2
             gap == max_duration - total
         IN  IF 2 < total /\ total <= max_duration /\ gap < smallest_pair_gap
             THEN pair_scan(all_eps, i, j + 1,
                            <<Entry(all_eps[i], "EPISODE", d1),
                              Entry(all_eps[j], "EPISODE", d2)>>,
                            gap, max_duration, cache)
             ELSE pair_scan(all_eps, i, j + 1, best, smallest_pair_gap,
                            max_duration, cache)

best_pair(all_eps, max_duration, cache) ==
    pair_scan(all_eps, 1, 2, NoEntries, max_duration, max_duration, cache)

\* a faulty choice: the single episode is preferred to the pair
fitting_choice_single_first(pair, single, fallback) ==
    IF pair = NoEntries /\ single = NoEntries THEN fallback
    ELSE IF single # NoEntries THEN single ELSE pair

\* which of the pair, the single and the filler block is returned
fitting_choice(pair, single, fallback) ==
    IF pair = NoEntries /\ single = NoEntries THEN fallback
    ELSE IF pair # NoEntries THEN pair ELSE single

\* the result, given the two traversal orders and get_random_filler()'s pick
get_fitting_episode(max_duration, order, all_eps, filler, cache) ==
    fitting_choice(
        best_pair(all_eps, max_duration, cache),
        best_single(order, max_duration, cache),
        IF filler # NoFile
        THEN <<Entry(filler, "FILLER", get_video_duration(cache, filler))>>
        ELSE NoEntries)

\* whether the call reaches get_random_filler() (neither search found any)
fitting_falls_back(max_duration, order, all_eps, cache) ==
    /\ best_pair(all_eps, max_duration, cache) = NoEntries
    /\ best_single(order, max_duration, cache) = NoEntries

(***************************************************************************)
(* get_next_random_episode(count=5): the show folders shuffled, one random *)
(* episode of each show that has any, until `count` are selected.          *)
(***************************************************************************)
EPISODE_COUNT == 5
Parent(ep) == ShowOf(ep)

Min(a, b) == IF a <= b THEN a ELSE b

get_next_random_episode ==
    LET stocked == {sh \in Shows : episode_candidates(sh) # {}}
    IN  {SubSeq(selected, 1, Min(Len(selected), EPISODE_COUNT)) :
            selected \in
                {s \in [1..Cardinality(stocked) -> fs.episodes] :
                    \E show_folders \in Perms(stocked) :
                        \A i \in DOMAIN s : ShowOf(s[i]) = show_folders[i]}}

(***************************************************************************)
(* refill_queue(): one pass of its while loop over one selection.  A clip  *)
(* of duration <= 1 is skipped; the others are appended, whatever the      *)
(* queue's length has become.                                              *)
(***************************************************************************)
queue_entry(next_clip, duration) ==
    Entry(next_clip,
          IF Parent(next_clip) = EPISODES_FOLDER THEN "EPISODE" ELSE "FILLER",
          duration)

RECURSIVE refill_pass(_, _, _, _)
refill_pass(queue, next_clip_list, k, cache) ==
    IF k > Len(next_clip_list) THEN queue
    ELSE LET duration == get_video_duration(cache, next_clip_list[k])
         IN  IF duration <= 1
             THEN refill_pass(queue, next_clip_list, k + 1, cache)
             ELSE refill_pass(
                      Append(queue, queue_entry(next_clip_list[k], duration)),
                      next_clip_list, k + 1, cache)

Range(s) == {s[i] : i \in DOMAIN s}

(***************************************************************************)
(* The slot clock as the scheduler reads it.  The control loop's clock     *)
(* stands at whole seconds (millisecond = 0), so the result is whole.      *)
(***************************************************************************)
seconds_until_slot(c) ==
    time_until_next_slot(c, millisecond, SLOT_MINUTE) \div Milli

\* a faulty is_slot_time(): the hour of the last firing is not looked at
is_slot_time_any_hour(c, last_hour) ==
    Abs(seconds_until_slot(c)) <= SLOT_TOLERANCE

\* is_slot_time(now, last_hour), with now = datetime.now() at clock c
is_slot_time(c, last_hour) ==
    /\ HourOf(c) # last_hour
    /\ Abs(seconds_until_slot(c)) <= SLOT_TOLERANCE

\* sorted(SLOT_FOLDER.glob("*.ts")): empty when the folder is missing
slot_files == IF SLOT_FOLDER \in dirs THEN fs.slots ELSE {}

\* get_random_slot_ts(): a .ts file of SLOT_FOLDER, else get_random_filler()
get_random_slot_ts(recent) ==
    IF slot_files # {}
    THEN {[filler |-> f, recent |-> recent] : f \in slot_files}
    ELSE get_random_filler(recent)

\* get_random_slot_ts() raises: no slot file, and FILLER_FOLDER.iterdir()
\* fails inside the except clause
slot_ts_raises == slot_files = {} /\ FILLER_FOLDER \notin dirs

\* play_video(path, duration, label): the PLAY command, then PLAYER_SLEEP
Play(path, duration, label) ==
    [path |-> path, duration |-> duration, label |-> label]

\* the pacing of one fitting or queued clip: PLAYER_SLEEP + max(0, d - 2)
paced(duration) == PLAYER_SLEEP + Max(0, duration - SAFETY_MARGIN)

RECURSIVE fitting_time(_, _)
fitting_time(entries, k) ==
    IF k > Len(entries) THEN 0
    ELSE paced(entries[k].duration) + fitting_time(entries, k + 1)

fitting_plays(entries) ==
    [k \in DOMAIN entries |->
        Play(entries[k].path, entries[k].duration, entries[k].type)]

(***************************************************************************)
(* The scheduler.  pc names the place the control loop stands at:          *)
(*   boot         before the boot refill_queue()                           *)
(*   refill       at the head of refill_queue()'s while loop               *)
(*   booted       the boot refill_queue() has returned                     *)
(*   cycle        at the head of `while True`                              *)
(*   fitting      at the head of `for ep in fitting_episodes`              *)
(*   pop          at `current_item = play_queue.pop(0) ...`                *)
(*   next         at the time_until_next_slot() before the next item       *)
(*   pad          at the cycle's last time_until_next_slot() steps         *)
(*   padded       after play_commercial_block()                            *)
(*   filler       at the head of play_filler_until_slot()'s while loop     *)
(*   filler_done  play_filler_until_slot() has returned                    *)
(*   except       in the loop's `except Exception` clause                  *)
(*   exited       scheduler() has raised to __main__: the process ends     *)
(***************************************************************************)
STARVE_WAIT == 5
MISSING_WAIT == 30
BACKOFF == 10

\* the run is followed up to this instant of the wall clock
MaxClock == 41400

\* `held` when no item is being held
NotHeld == <<>>

conf_vars == <<SLOT_MINUTE, SLOT_DURATION, COMMERCIAL_PADDING>>
\* what the control loop's steps leave as they are
env_vars == <<fs, dirs, faults, ffprobe, millisecond, remaining, observed>>
cycle_locals ==
    <<seconds_to_slot, max_episode_duration, fitting_episodes, fit_index>>

\* scheduler(): last_slot_hour = None, startup_time, then refill_queue()
Boot ==
    /\ pc = "boot"
    /\ last_slot_hour' = NoHour
    /\ startup_time' = clock
    /\ pc' = "refill"
    /\ ret' = "booted"
    /\ plays' = <<>>
    /\ UNCHANGED <<conf_vars, env_vars, cycle_locals, clock, duration_cache,
                   play_queue, recent_fillers, seconds_remaining, fret,
                   slot_fires, held>>

\* refill_queue(): one pass of `while len(play_queue) < QUEUE_MAX_SIZE`.
\* EPISODES_FOLDER.iterdir() raises when the folder is missing: to the
\* loop's except clause, or out of scheduler() from the boot call.
RefillIter ==
    /\ pc = "refill"
    /\ Len(play_queue) < QUEUE_MAX_SIZE
    /\ IF EPISODES_FOLDER \notin dirs
       THEN /\ pc' = IF ret = "booted" THEN "exited" ELSE "except"
            /\ UNCHANGED <<play_queue, duration_cache>>
       ELSE /\ \E next_clip_list \in get_next_random_episode :
                  /\ play_queue' = refill_pass(play_queue, next_clip_list, 1,
                                               duration_cache)
                  /\ duration_cache' =
                         cache_after(duration_cache, Range(next_clip_list))
            /\ pc' = pc
    /\ plays' = <<>>
    /\ UNCHANGED <<conf_vars, env_vars, cycle_locals, clock, recent_fillers,
                   last_slot_hour, seconds_remaining, startup_time, ret,
                   fret, slot_fires, held>>

\* refill_queue() returns: the while condition is false
RefillReturn ==
    /\ pc = "refill"
    /\ Len(play_queue) >= QUEUE_MAX_SIZE
    /\ pc' = ret
    /\ plays' = <<>>
    /\ UNCHANGED <<conf_vars, env_vars, cycle_locals, clock, duration_cache,
                   play_queue, recent_fillers, last_slot_hour,
                   seconds_remaining, startup_time, ret, fret, slot_fires,
                   held>>

\* after the boot refill_queue(): `while True`
Booted ==
    /\ pc = "booted"
    /\ pc' = "cycle"
    /\ plays' = <<>>
    /\ UNCHANGED <<conf_vars, env_vars, cycle_locals, clock, duration_cache,
                   play_queue, recent_fillers, last_slot_hour,
                   seconds_remaining, startup_time, ret, fret, slot_fires,
                   held>>

(***************************************************************************)
(* The head of a cycle: within FITTING_LOOKAHEAD seconds of the slot,      *)
(* get_fitting_episode(seconds_to_slot - SLOT_DURATION - 2) is tried.      *)
(* Each outcome is the result with recent_fillers and duration_cache as    *)
(* the call leaves them; it raises when it falls back to a filler and      *)
(* FILLER_FOLDER is missing.                                               *)
(***************************************************************************)
cycle_budget == seconds_until_slot(clock) - SLOT_DURATION - SAFETY_MARGIN

\* get_fitting_episode(max_duration): every outcome the shuffles and
\* random.choice allow
fitting_call(max_duration) ==
    {LET falls == fitting_falls_back(max_duration, order, all_eps,
                                     duration_cache)
         listed == falls /\ FILLER_FOLDER \in dirs
     IN  [result |-> IF falls /\ ~listed THEN NoEntries
                     ELSE get_fitting_episode(max_duration, order, all_eps,
                                              fr.filler, duration_cache),
          raises |-> falls /\ ~listed,
          recent |-> IF listed THEN fr.recent ELSE recent_fillers,
          cache |-> cache_after(duration_cache,
                       fs.episodes \cup
                       (IF listed /\ fr.filler # NoFile
                        THEN {fr.filler} ELSE {}))] :
        order \in ShowByShowOrders,
        all_eps \in Perms(fs.episodes),
        fr \in get_random_filler(recent_fillers)}

fitting_attempt ==
    IF seconds_until_slot(clock) <= FITTING_LOOKAHEAD
    THEN fitting_call(cycle_budget)
    ELSE {[result |-> NoEntries, raises |-> FALSE,
           recent |-> recent_fillers, cache |-> duration_cache]}

\* execute_slot(now) entered at instant t, with recent_fillers = recent:
\* a slot clip is played and paced by SLOT_DURATION; the hour is returned.
\* When get_random_slot_ts() raises, nothing is played.
execute_slot(t, recent, before, next_pc) ==
    IF slot_ts_raises
    THEN /\ recent_fillers' = recent
         /\ plays' = before
         /\ clock' = t
         /\ pc' = "except"
         /\ UNCHANGED <<last_slot_hour, slot_fires>>
    ELSE \E sc \in get_random_slot_ts(recent) :
            /\ recent_fillers' = sc.recent
            /\ plays' = Append(before, Play(sc.filler, SLOT_DURATION, "SLOT"))
            /\ clock' = t + PLAYER_SLEEP + SLOT_DURATION
            /\ last_slot_hour' = HourOf(t)
            /\ slot_fires' = slot_fires \cup {t}
            /\ pc' = next_pc

\* `if not EPISODES_FOLDER.exists()`: wait 30 s and retry
CycleMissing ==
    /\ pc = "cycle"
    /\ clock < MaxClock
    /\ EPISODES_FOLDER \notin dirs
    /\ clock' = clock + MISSING_WAIT
    /\ pc' = "cycle"
    /\ plays' = <<>>
    /\ held' = NotHeld
    /\ UNCHANGED <<conf_vars, env_vars, cycle_locals, duration_cache,
                   play_queue, recent_fillers, last_slot_hour,
                   seconds_remaining, startup_time, ret, fret, slot_fires>>

\* get_fitting_episode() raises: to the loop's except clause
CycleRaises ==
    /\ pc = "cycle"
    /\ clock < MaxClock
    /\ EPISODES_FOLDER \in dirs
    /\ \E fa \in fitting_attempt :
          /\ fa.raises
          /\ seconds_to_slot' = seconds_until_slot(clock)
          /\ max_episode_duration' = cycle_budget
          /\ fitting_episodes' = NoEntries
          /\ duration_cache' = fa.cache
    /\ pc' = "except"
    /\ plays' = <<>>
    /\ held' = NotHeld
    /\ UNCHANGED <<conf_vars, env_vars, fit_index, clock, play_queue,
                   recent_fillers, last_slot_hour, seconds_remaining,
                   startup_time, ret, fret, slot_fires>>

\* the fitting branch: get_fitting_episode() returned a result to play
CycleFitting ==
    /\ pc = "cycle"
    /\ clock < MaxClock
    /\ EPISODES_FOLDER \in dirs
    /\ \E fa \in fitting_attempt :
          /\ ~fa.raises
          /\ fa.result # NoEntries
          /\ seconds_to_slot' = seconds_until_slot(clock)
          /\ max_episode_duration' = cycle_budget
          /\ fitting_episodes' = fa.result
          /\ duration_cache' = fa.cache
          /\ recent_fillers' = fa.recent
    /\ fit_index' = 1
    /\ pc' = "fitting"
    /\ plays' = <<>>
    /\ held' = NotHeld
    /\ UNCHANGED <<conf_vars, env_vars, clock, play_queue, last_slot_hour,
                   seconds_remaining, startup_time, ret, fret, slot_fires>>

\* one pass of `for ep in fitting_episodes`: a missing file is skipped
FitPlay ==
    /\ pc = "fitting"
    /\ fit_index <= Len(fitting_episodes)
    /\ LET ep == fitting_episodes[fit_index]
       IN  IF ~exists(ep.path)
           THEN /\ plays' = <<>>
                /\ clock' = clock
           ELSE /\ plays' = <<Play(ep.path, ep.duration, ep.type)>>
                /\ clock' = clock + paced(ep.duration)
    /\ fit_index' = fit_index + 1
    /\ UNCHANGED <<conf_vars, env_vars, seconds_to_slot, max_episode_duration,
                   fitting_episodes, duration_cache, play_queue,
                   recent_fillers, last_slot_hour, seconds_remaining,
                   startup_time, pc, ret, fret, slot_fires, held>>

\* after the for loop: the slot if it is due, then refill_queue()
FitDone ==
    /\ pc = "fitting"
    /\ fit_index > Len(fitting_episodes)
    /\ IF is_slot_time(clock, last_slot_hour)
       THEN execute_slot(clock, recent_fillers, <<>>, "refill")
       ELSE /\ pc' = "refill"
            /\ plays' = <<>>
            /\ UNCHANGED <<clock, recent_fillers, last_slot_hour, slot_fires>>
    /\ ret' = "cycle"
    /\ UNCHANGED <<conf_vars, env_vars, cycle_locals, duration_cache,
                   play_queue, seconds_remaining, startup_time, fret, held>>

\* the slot-due branch: no fitting content and is_slot_time(now, ...)
CycleSlot ==
    /\ pc = "cycle"
    /\ clock < MaxClock
    /\ EPISODES_FOLDER \in dirs
    /\ \E fa \in fitting_attempt :
          /\ ~fa.raises
          /\ fa.result = NoEntries
          /\ is_slot_time(clock, last_slot_hour)
          /\ seconds_to_slot' = seconds_until_slot(clock)
          /\ max_episode_duration' = cycle_budget
          /\ fitting_episodes' = fa.result
          /\ duration_cache' = fa.cache
          /\ execute_slot(clock, fa.recent, <<>>, "refill")
    /\ ret' = "cycle"
    /\ held' = NotHeld
    /\ UNCHANGED <<conf_vars, env_vars, fit_index, play_queue,
                   seconds_remaining, startup_time, fret>>

\* the queue branch: `if not play_queue: refill_queue()`
CycleQueue ==
    /\ pc = "cycle"
    /\ clock < MaxClock
    /\ EPISODES_FOLDER \in dirs
    /\ \E fa \in fitting_attempt :
          /\ ~fa.raises
          /\ fa.result = NoEntries
          /\ ~is_slot_time(clock, last_slot_hour)
          /\ seconds_to_slot' = seconds_until_slot(clock)
          /\ max_episode_duration' = cycle_budget
          /\ fitting_episodes' = fa.result
          /\ duration_cache' = fa.cache
          /\ recent_fillers' = fa.recent
    /\ IF play_queue = <<>>
       THEN pc' = "refill" /\ ret' = "pop"
       ELSE pc' = "pop" /\ ret' = ret
    /\ plays' = <<>>
    /\ held' = NotHeld
    /\ UNCHANGED <<conf_vars, env_vars, fit_index, clock, play_queue,
                   last_slot_hour, seconds_remaining, startup_time, fret,
                   slot_fires>>

\* `except Exception as loop_error`: time.sleep(10), then the next cycle
Backoff ==
    /\ pc = "except"
    /\ clock' = clock + BACKOFF
    /\ pc' = "cycle"
    /\ plays' = <<>>
    /\ UNCHANGED <<conf_vars, env_vars, cycle_locals, duration_cache,
                   play_queue, recent_fillers, last_slot_hour,
                   seconds_remaining, startup_time, ret, fret, slot_fires,
                   held>>

(***************************************************************************)
(* The popped item: none (wait 5 s); its file is missing (next cycle);     *)
(* too close to the slot (filler until the slot); else it is played.       *)
(***************************************************************************)
QueueStep ==
    /\ pc = "pop"
    /\ IF play_queue = <<>>
       THEN /\ clock' = clock + STARVE_WAIT
            /\ pc' = "cycle"
            /\ plays' = <<>>
            /\ UNCHANGED <<play_queue, seconds_remaining, fret>>
       ELSE LET current_item == Head(play_queue)
                rest == Tail(play_queue)
            IN  /\ play_queue' = rest
                /\ IF ~exists(current_item.path)
                   THEN /\ pc' = "cycle"
                        /\ plays' = <<>>
                        /\ UNCHANGED <<clock, seconds_remaining, fret>>
                   ELSE IF current_item.duration
                               >= seconds_to_slot - SLOT_DURATION
                   THEN /\ pc' = "filler"
                        /\ seconds_remaining' =
                               seconds_to_slot - SLOT_DURATION
                        /\ fret' = "tooclose"
                        /\ plays' = <<>>
                        /\ UNCHANGED clock
                   ELSE /\ plays' = <<Play(current_item.path,
                                           current_item.duration,
                                           current_item.type)>>
                        /\ clock' = clock + paced(current_item.duration)
                        /\ pc' = "next"
                        /\ UNCHANGED <<seconds_remaining, fret>>
    /\ UNCHANGED <<conf_vars, env_vars, cycle_locals, duration_cache,
                   recent_fillers, last_slot_hour, startup_time, ret,
                   slot_fires, held>>

\* a faulty next-item step: the next queued item is played whether or not
\* it fits before the slot
NextItem_unheld ==
    /\ pc = "next"
    /\ seconds_to_slot' = seconds_until_slot(clock)
    /\ IF play_queue # <<>>
       THEN LET next_item == Head(play_queue)
            IN  /\ play_queue' = Tail(play_queue)
                /\ plays' = <<Play(next_item.path, next_item.duration,
                                   next_item.type)>>
                /\ clock' = clock + PLAYER_SLEEP + next_item.duration
                /\ pc' = "refill"
                /\ ret' = "pad"
                /\ held' = held
       ELSE /\ plays' = <<>>
            /\ pc' = "pad"
            /\ held' = <<play_queue>>
            /\ UNCHANGED <<play_queue, clock, ret>>
    /\ UNCHANGED <<conf_vars, env_vars, max_episode_duration, fitting_episodes,
                   fit_index, duration_cache, recent_fillers, last_slot_hour,
                   seconds_remaining, startup_time, fret, slot_fires>>

\* the next queued item is played too when it still fits before the slot,
\* then refill_queue(); else it is left queued
NextItem ==
    /\ pc = "next"
    /\ seconds_to_slot' = seconds_until_slot(clock)
    /\ IF /\ play_queue # <<>>
          /\ play_queue[1].duration < seconds_until_slot(clock) - SLOT_DURATION
       THEN LET next_item == Head(play_queue)
            IN  /\ play_queue' = Tail(play_queue)
                /\ plays' = <<Play(next_item.path, next_item.duration,
                                   next_item.type)>>
                /\ clock' = clock + PLAYER_SLEEP + next_item.duration
                /\ pc' = "refill"
                /\ ret' = "pad"
                /\ held' = held
       ELSE /\ plays' = <<>>
            /\ pc' = "pad"
            /\ held' = <<play_queue>>
            /\ UNCHANGED <<play_queue, clock, ret>>
    /\ UNCHANGED <<conf_vars, env_vars, max_episode_duration, fitting_episodes,
                   fit_index, duration_cache, recent_fillers, last_slot_hour,
                   seconds_remaining, startup_time, fret, slot_fires>>

\* what follows the padding: filler until the slot, or the next cycle
until_slot(s) ==
    IF s > SLOT_DURATION
    THEN /\ pc' = "filler"
         /\ seconds_remaining' = s - SLOT_DURATION
         /\ fret' = "slot"
    ELSE /\ pc' = "cycle"
         /\ UNCHANGED <<seconds_remaining, fret>>

\* `if seconds_to_slot > SLOT_DURATION + COMMERCIAL_PADDING`
Pad ==
    /\ pc = "pad"
    /\ seconds_to_slot' = seconds_until_slot(clock)
    /\ IF seconds_until_slot(clock) > SLOT_DURATION + COMMERCIAL_PADDING
       THEN /\ pc' = "filler"
            /\ seconds_remaining' = COMMERCIAL_PADDING
            /\ fret' = "padded"
       ELSE until_slot(seconds_until_slot(clock))
    /\ plays' = <<>>
    /\ UNCHANGED <<conf_vars, env_vars, max_episode_duration, fitting_episodes,
                   fit_index, clock, duration_cache, play_queue,
                   recent_fillers, last_slot_hour, startup_time, ret,
                   slot_fires, held>>

\* after play_commercial_block(): time_until_next_slot() again
Padded ==
    /\ pc = "padded"
    /\ seconds_to_slot' = seconds_until_slot(clock)
    /\ until_slot(seconds_until_slot(clock))
    /\ plays' = <<>>
    /\ UNCHANGED <<conf_vars, env_vars, max_episode_duration, fitting_episodes,
                   fit_index, clock, duration_cache, play_queue,
                   recent_fillers, last_slot_hour, startup_time, ret,
                   slot_fires, held>>

(***************************************************************************)
(* play_filler_until_slot(seconds_remaining): one pass of its while loop.  *)
(* No filler: break.  A filler of duration <= 1 or >= seconds_remaining-2: *)
(* continue.  Else it is played, recorded and paced by its duration.  When *)
(* FILLER_FOLDER is missing get_random_filler() raises, and the function's *)
(* own except clause ends the call.                                        *)
(***************************************************************************)
FillerIter ==
    /\ pc = "filler"
    /\ clock < MaxClock
    /\ seconds_remaining > SLOT_DURATION
    /\ IF FILLER_FOLDER \notin dirs
       THEN /\ pc' = "filler_done"
            /\ plays' = <<>>
            /\ UNCHANGED <<clock, duration_cache, seconds_remaining,
                           recent_fillers>>
       ELSE \E fr \in get_random_filler(recent_fillers) :
          IF fr.filler = NoFile
          THEN /\ pc' = "filler_done"
               /\ recent_fillers' = fr.recent
               /\ plays' = <<>>
               /\ UNCHANGED <<clock, duration_cache, seconds_remaining>>
          ELSE LET duration == get_video_duration(duration_cache, fr.filler)
               IN  /\ duration_cache' =
                          cache_after(duration_cache, {fr.filler})
                   /\ pc' = pc
                   /\ IF \/ duration <= 1
                         \/ duration >= seconds_remaining - SAFETY_MARGIN
                      THEN /\ recent_fillers' = fr.recent
                           /\ plays' = <<>>
                           /\ UNCHANGED <<clock, seconds_remaining>>
                      ELSE /\ plays' = <<Play(fr.filler, duration, "FILLER")>>
                           /\ recent_fillers' =
                                  recent_append(fr.recent, fr.filler)
                           /\ clock' = clock + PLAYER_SLEEP + duration
                           /\ seconds_remaining' = seconds_remaining - duration
    /\ UNCHANGED <<conf_vars, env_vars, cycle_locals, play_queue,
                   last_slot_hour, startup_time, ret, fret, slot_fires, held>>

\* the while condition is false: play_filler_until_slot() returns
FillerDone ==
    /\ pc = "filler"
    /\ seconds_remaining <= SLOT_DURATION
    /\ pc' = "filler_done"
    /\ plays' = <<>>
    /\ UNCHANGED <<conf_vars, env_vars, cycle_locals, clock, duration_cache,
                   play_queue, recent_fillers, last_slot_hour,
                   seconds_remaining, startup_time, ret, fret, slot_fires,
                   held>>

\* after play_commercial_block()
PadDone ==
    /\ pc = "filler_done"
    /\ fret = "padded"
    /\ pc' = "padded"
    /\ plays' = <<>>
    /\ UNCHANGED <<conf_vars, env_vars, cycle_locals, clock, duration_cache,
                   play_queue, recent_fillers, last_slot_hour,
                   seconds_remaining, startup_time, ret, fret, slot_fires,
                   held>>

\* `last_slot_hour = execute_slot(datetime.now())` after the filler: in the
\* item-too-close branch (then refill_queue()) and at the end of the cycle
SlotAfterFiller ==
    /\ pc = "filler_done"
    /\ fret \in {"tooclose", "slot"}
    /\ execute_slot(clock, recent_fillers, <<>>,
                    IF fret = "tooclose" THEN "refill" ELSE "cycle")
    /\ ret' = IF fret = "tooclose" THEN "cycle" ELSE ret
    /\ UNCHANGED <<conf_vars, env_vars, cycle_locals, duration_cache,
                   play_queue, seconds_remaining, startup_time, fret, held>>

(***************************************************************************)
(* The storage changes under the running scheduler: a file disappears, a   *)
(* storage root disappears.                                                *)
(***************************************************************************)
MaxFaults == 1

storage_vars == <<conf_vars, ffprobe, millisecond, remaining, observed,
                  cycle_locals, clock, duration_cache, play_queue,
                  recent_fillers, last_slot_hour, seconds_remaining,
                  startup_time, pc, ret, fret, slot_fires, held>>

FileVanishes ==
    /\ faults < MaxFaults
    /\ pc # "exited"
    /\ \E f \in fs.episodes \cup fs.fillers \cup fs.slots :
          fs' = [episodes |-> fs.episodes \ {f},
                 fillers |-> fs.fillers \ {f},
                 slots |-> fs.slots \ {f}]
    /\ faults' = faults + 1
    /\ plays' = <<>>
    /\ UNCHANGED <<storage_vars, dirs>>

FolderVanishes ==
    /\ faults < MaxFaults
    /\ pc # "exited"
    /\ \E d \in dirs : dirs' = dirs \ {d}
    /\ faults' = faults + 1
    /\ plays' = <<>>
    /\ UNCHANGED <<storage_vars, fs>>

(***************************************************************************)
(* The configurations and catalogs the runs start from.                    *)
(***************************************************************************)
Confs ==
    {[minute |-> 30, duration |-> 65, padding |-> 120]}

NoCatalog == [f \in Files |-> 0]

Catalogs ==
    { \* one show with an unplayable episode, two fillers
      [episodes |-> {"a1", "a2"}, fillers |-> {"f1", "f2"},
       slots |-> {"slot1"},
       ffprobe |-> [NoCatalog EXCEPT !["a1"] = 300, !["f1"] = 40,
                                     !["f2"] = 40, !["slot1"] = 65]],
      \* two shows, no filler at all
      [episodes |-> {"a1", "b1"}, fillers |-> {}, slots |-> {"slot1"},
       ffprobe |-> [NoCatalog EXCEPT !["a1"] = 300, !["b1"] = 280,
                                     !["slot1"] = 65]],
      \* no episode at all
      [episodes |-> {}, fillers |-> {"f1"}, slots |-> {"slot1"},
       ffprobe |-> [NoCatalog EXCEPT !["f1"] = 40, !["slot1"] = 65]],
      \* long clips only
      [episodes |-> {"a1", "b1"}, fillers |-> {"f1"}, slots |-> {"slot1"},
       ffprobe |-> [NoCatalog EXCEPT !["a1"] = 700, !["b1"] = 700,
                                     !["f1"] = 900, !["slot1"] = 65]] }

\* 10:00:00, 10:19:00, 10:20:00 and 10:29:30
StartClocks == {36000, 37140, 37200, 37770}

Init ==
    /\ \E conf \in Confs :
          /\ SLOT_MINUTE = conf.minute
          /\ SLOT_DURATION = conf.duration
          /\ COMMERCIAL_PADDING = conf.padding
    /\ \E cat \in Catalogs :
          /\ fs = [episodes |-> cat.episodes, fillers |-> cat.fillers,
                   slots |-> cat.slots]
          /\ ffprobe = cat.ffprobe
    /\ dirs = Folders
    /\ faults = 0
    /\ clock \in StartClocks
    /\ millisecond = 0
    /\ duration_cache = <<>>
    /\ play_queue = <<>>
    /\ recent_fillers = <<>>
    /\ last_slot_hour = NoHour
    /\ seconds_to_slot = 0
    /\ max_episode_duration = 0
    /\ fitting_episodes = NoEntries
    /\ fit_index = 1
    /\ seconds_remaining = 0
    /\ remaining = 0
    /\ startup_time = 0
    /\ pc = "boot"
    /\ ret = "booted"
    /\ fret = "slot"
    /\ plays = <<>>
    /\ slot_fires = {}
    /\ held = NotHeld
    /\ observed = <<>>

Next ==
    \/ Boot
    \/ RefillIter
    \/ RefillReturn
    \/ Booted
    \/ CycleFitting
    \/ FitPlay
    \/ FitDone
    \/ CycleSlot
    \/ CycleQueue
    \/ QueueStep
    \/ NextItem
    \/ Pad
    \/ Padded
    \/ FillerIter
    \/ FillerDone
    \/ PadDone
    \/ SlotAfterFiller

Spec == Init /\ [][Next]_vars

\* the scheduler under weak fairness: a step that can be taken is taken
SpecLive == Spec /\ WF_vars(Next)

\* the scheduler while the storage changes under it
NextEnv ==
    \/ Next
    \/ CycleMissing
    \/ CycleRaises
    \/ Backoff
    \/ FileVanishes
    \/ FolderVanishes

SpecEnv == Init /\ [][NextEnv]_vars

(***************************************************************************)
(* get_fitting_episode() on its own: a catalog, ffprobe's answers and a    *)
(* max_duration are drawn, and the function is called once.                *)
(***************************************************************************)
MaxProbe == 4
MaxBudget == 8

scheduler_idle ==
    /\ SLOT_DURATION = 65
    /\ dirs = Folders
    /\ faults = 0
    /\ fit_index = 1
    /\ held = NotHeld
    /\ COMMERCIAL_PADDING = 120
    /\ play_queue = <<>>
    /\ last_slot_hour = NoHour
    /\ seconds_to_slot = 0
    /\ seconds_remaining = 0
    /\ startup_time = 0
    /\ ret = "cycle"
    /\ fret = "slot"
    /\ plays = <<>>
    /\ slot_fires = {}

FitInit ==
    /\ scheduler_idle
    /\ SLOT_MINUTE = 30
    /\ clock = 0
    /\ millisecond = 0
    /\ remaining = 0
    /\ \E episodes \in SUBSET EpisodeFiles, fillers \in SUBSET {"f1"} :
          /\ fs = [episodes |-> episodes, fillers |-> fillers,
                   slots |-> SlotFiles]
          /\ ffprobe \in [Files -> 0..MaxProbe]
          /\ \A f \in Files \ (episodes \cup fillers) : ffprobe[f] = 0
    /\ duration_cache = <<>>
    /\ recent_fillers = <<>>
    /\ max_episode_duration \in -1..MaxBudget
    /\ fitting_episodes = NoEntries
    /\ observed = <<>>
    /\ pc = "fit"

\* fitting_episodes = get_fitting_episode(max_episode_duration)
FitCall ==
    /\ pc = "fit"
    /\ \E fa \in fitting_call(max_episode_duration) :
          /\ fitting_episodes' = fa.result
          /\ recent_fillers' = fa.recent
          /\ duration_cache' = fa.cache
    /\ pc' = "fitted"
    /\ UNCHANGED <<conf_vars, env_vars, clock, play_queue, last_slot_hour,
                   seconds_to_slot, max_episode_duration, fit_index,
                   seconds_remaining, startup_time, ret, fret, plays,
                   slot_fires, held>>

SpecFit == FitInit /\ [][FitCall]_vars

(***************************************************************************)
(* time_until_next_slot() on its own: an instant of the wall clock and a   *)
(* SLOT_MINUTE are drawn, and the function is called once.                 *)
(***************************************************************************)
\* 23:00:00 .. 23:59:59, at seconds 0, 1 and 59 of each minute, at the
\* full second and half a second past it
ClockInstants ==
    {c \in 82800..86399 : SecondOf(c) \in {0, 1, 59}}
HalfSecond == 500

ClockInit ==
    /\ scheduler_idle
    /\ SLOT_MINUTE \in 0..59
    /\ clock \in ClockInstants
    /\ millisecond \in {0, HalfSecond}
    /\ remaining = 0
    /\ fs = [episodes |-> {}, fillers |-> {}, slots |-> {}]
    /\ ffprobe = NoCatalog
    /\ duration_cache = <<>>
    /\ recent_fillers = <<>>
    /\ max_episode_duration = 0
    /\ fitting_episodes = NoEntries
    /\ observed = <<>>
    /\ pc = "clock"

\* remaining = time_until_next_slot()
ClockCall ==
    /\ pc = "clock"
    /\ remaining' = time_until_next_slot(clock, millisecond, SLOT_MINUTE)
    /\ pc' = "clocked"
    /\ UNCHANGED <<conf_vars, fs, dirs, faults, ffprobe, millisecond, clock,
                   duration_cache, play_queue, recent_fillers, last_slot_hour,
                   cycle_locals, seconds_remaining, startup_time, ret, fret,
                   plays, slot_fires, held, observed>>

SpecClock == ClockInit /\ [][ClockCall]_vars

(***************************************************************************)
(* is_slot_time() and execute_slot() on their own: the wall clock moves on *)
(* and `if is_slot_time(now, last_slot_hour): last_slot_hour =             *)
(* execute_slot(now)` is evaluated again and again.                        *)
(***************************************************************************)
\* 18:16:00 and 19:02:00
DueStart == 65760
DueEnd == 68520
DueTicks == {1, 19}

DueInit ==
    /\ SLOT_MINUTE \in {0, 18, 59}
    /\ SLOT_DURATION \in {5, 65}
    /\ COMMERCIAL_PADDING = 120
    /\ clock = DueStart
    /\ millisecond = 0
    /\ remaining = 0
    /\ fs = [episodes |-> {}, fillers |-> {}, slots |-> SlotFiles]
    /\ dirs = Folders
    /\ faults = 0
    /\ ffprobe = NoCatalog
    /\ duration_cache = <<>>
    /\ play_queue = <<>>
    /\ recent_fillers = <<>>
    /\ last_slot_hour = NoHour
    /\ seconds_to_slot = 0
    /\ max_episode_duration = 0
    /\ fitting_episodes = NoEntries
    /\ fit_index = 1
    /\ seconds_remaining = 0
    /\ startup_time = DueStart
    /\ ret = "cycle"
    /\ fret = "slot"
    /\ plays = <<>>
    /\ slot_fires = {}
    /\ held = NotHeld
    /\ observed = <<>>
    /\ pc = "due"

\* `if is_slot_time(now, last_slot_hour): last_slot_hour = execute_slot(now)`
DueCheck ==
    /\ pc \in {"due", "due_checked"}
    /\ observed' = [now |-> clock, last_hour |-> last_slot_hour,
                    due |-> is_slot_time(clock, last_slot_hour)]
    /\ IF is_slot_time(clock, last_slot_hour)
       THEN execute_slot(clock, recent_fillers, <<>>, "due_checked")
       ELSE /\ pc' = "due_checked"
            /\ plays' = <<>>
            /\ UNCHANGED <<clock, recent_fillers, last_slot_hour, slot_fires>>
    /\ UNCHANGED <<conf_vars, fs, dirs, faults, ffprobe, millisecond,
                   remaining, cycle_locals, duration_cache, play_queue,
                   seconds_remaining, startup_time, ret, fret, held>>

\* the wall clock moves on
DueTick ==
    /\ pc \in {"due", "due_checked"}
    /\ \E d \in DueTicks :
          /\ clock + d <= DueEnd
          /\ clock' = clock + d
    /\ pc' = "due"
    /\ plays' = <<>>
    /\ observed' = <<>>
    /\ UNCHANGED <<conf_vars, fs, dirs, faults, ffprobe, millisecond,
                   remaining, cycle_locals, duration_cache, play_queue,
                   recent_fillers, last_slot_hour, seconds_remaining,
                   startup_time, ret, fret, slot_fires, held>>

SpecDue == DueInit /\ [][DueCheck \/ DueTick]_vars

(***************************************************************************)
(* get_random_filler() on its own, called the way play_filler_until_slot() *)
(* calls it: the filler it returns is appended to recent_fillers.  A       *)
(* filler file may disappear between two calls.                            *)
(***************************************************************************)
RotationFillers == <<"r1", "r2", "r3", "r4", "r5", "r6">>
RotationCatalogs == {0, 3, 5, 6}

RotateInit ==
    /\ scheduler_idle
    /\ SLOT_MINUTE = 30
    /\ clock = 0
    /\ millisecond = 0
    /\ remaining = 0
    /\ \E n \in RotationCatalogs :
          fs = [episodes |-> {},
                fillers |-> {RotationFillers[i] : i \in 1..n},
                slots |-> SlotFiles]
    /\ ffprobe = NoCatalog
    /\ duration_cache = <<>>
    /\ recent_fillers = <<>>
    /\ max_episode_duration = 0
    /\ fitting_episodes = NoEntries
    /\ observed = <<>>
    /\ pc = "rotate"

\* filler = get_random_filler(); ...; recent_fillers.append(filler)
FillerNext ==
    /\ pc \in {"rotate", "rotated"}
    /\ \E fr \in get_random_filler(recent_fillers) :
          /\ observed' = [before |-> recent_fillers, listed |-> fs.fillers,
                          filler |-> fr.filler, after |-> fr.recent]
          /\ recent_fillers' = IF fr.filler = NoFile THEN fr.recent
                               ELSE recent_append(fr.recent, fr.filler)
    /\ pc' = "rotated"
    /\ UNCHANGED <<conf_vars, fs, dirs, faults, ffprobe, millisecond,
                   remaining, cycle_locals, clock, duration_cache, play_queue,
                   last_slot_hour, seconds_remaining, startup_time, ret, fret,
                   plays, slot_fires, held>>

SpecRotate == RotateInit /\ [][FillerNext \/ FileVanishes]_vars

(***************************************************************************)
(* get_video_duration() on its own: files are probed again and again       *)
(* while ffprobe's answer for a file may change (the file is replaced, or  *)
(* ffprobe starts or stops failing on it).  `observed` keeps the value the *)
(* first call returned for each file and how often ffprobe was run on it.  *)
(***************************************************************************)
ProbedFiles == {"a1", "f1"}
ProbeAnswers == 0..2

ProbeInit ==
    /\ scheduler_idle
    /\ SLOT_MINUTE = 30
    /\ clock = 0
    /\ millisecond = 0
    /\ remaining = 0
    /\ fs = [episodes |-> {"a1"}, fillers |-> {"f1"}, slots |-> SlotFiles]
    /\ ffprobe \in [Files -> ProbeAnswers]
    /\ \A f \in Files \ ProbedFiles : ffprobe[f] = 0
    /\ duration_cache = <<>>
    /\ recent_fillers = <<>>
    /\ max_episode_duration = 0
    /\ fitting_episodes = NoEntries
    /\ observed = [file |-> NoFile, value |-> 0, first |-> <<>>,
                   runs |-> [f \in ProbedFiles |-> 0]]
    /\ pc = "probe"

\* get_video_duration(file_path): ffprobe is run when the path is not cached
ProbeCall ==
    /\ pc \in {"probe", "probed"}
    /\ \E file_path \in ProbedFiles :
          LET value == get_video_duration(duration_cache, file_path)
              ran == file_path \notin DOMAIN duration_cache
          IN  /\ observed' =
                     [file |-> file_path,
                      value |-> value,
                      first |-> IF file_path \in DOMAIN observed.first
                                THEN observed.first
                                ELSE [f \in DOMAIN observed.first
                                             \cup {file_path} |->
                                         IF f = file_path THEN value
                                         ELSE observed.first[f]],
                      runs |-> IF ran
                               THEN [observed.runs EXCEPT
                                        ![file_path] = @ + 1]
                               ELSE observed.runs]
              /\ duration_cache' = cache_after(duration_cache, {file_path})
    /\ pc' = "probed"
    /\ UNCHANGED <<conf_vars, fs, dirs, faults, ffprobe, millisecond,
                   remaining, cycle_locals, clock, play_queue, recent_fillers,
                   last_slot_hour, seconds_remaining, startup_time, ret, fret,
                   plays, slot_fires, held>>

\* what ffprobe reports for a file changes
ProbeChanges ==
    /\ pc \in {"probe", "probed"}
    /\ \E f \in ProbedFiles, d \in ProbeAnswers :
          /\ d # ffprobe[f]
          /\ ffprobe' = [ffprobe EXCEPT ![f] = d]
    /\ pc' = "probe"
    /\ UNCHANGED <<conf_vars, fs, dirs, faults, millisecond, remaining,
                   observed, cycle_locals, clock, duration_cache, play_queue,
                   recent_fillers, last_slot_hour, seconds_remaining,
                   startup_time, ret, fret, plays, slot_fires, held>>

SpecProbe == ProbeInit /\ [][ProbeCall \/ ProbeChanges]_vars

(***************************************************************************)
(* The claims.                                                             *)
(***************************************************************************)

\* C1: the slot is fired at most once per calendar hour: any two firings
\* of execute_slot() start in different calendar hours, whichever branch
\* fired them.
C1_OncePerHour ==
    \A t1, t2 \in slot_fires : t1 # t2 => t1 \div Hour # t2 \div Hour

\* C2: whenever the slot is fired, the time remaining until the next slot
\* instant at the moment of firing is within the 60-second tolerance.
C2_FiredWithinTolerance ==
    \A t \in slot_fires : Abs(seconds_until_slot(t)) <= SLOT_TOLERANCE

\* the slot instants (minute = SLOT_MINUTE, second = 0) from startup on
MaxHours == 3
SlotInstants ==
    {next_slot(startup_time, SLOT_MINUTE) + k * Hour : k \in 0..MaxHours}

\* C3: with a non-empty episode, filler and slot-clip catalog, no hourly
\* slot instant passes without a slot firing: once the clock is more than
\* the tolerance past a slot instant S that the loop saw coming for the
\* whole fitting lookahead, the slot was fired in the hour that leads to S
\* or within the tolerance after it.
C3_SlotEveryHour ==
    (/\ pc # "boot"
     /\ fs.episodes # {} /\ fs.fillers # {} /\ fs.slots # {})
        => \A S \in SlotInstants :
               (/\ startup_time + FITTING_LOOKAHEAD <= S
                /\ S + SLOT_TOLERANCE < clock)
                   => \E t \in slot_fires :
                          S - Hour < t /\ t <= S + SLOT_TOLERANCE

\* C4: the play queue's length never exceeds QUEUE_MAX_SIZE, in every
\* reachable state of the control loop and after any pass of refill().
C4_QueueBound == Len(play_queue) <= QUEUE_MAX_SIZE

\* C5: refill() terminates: when the catalog is empty or every candidate
\* episode is unplayable, refill_queue() can return, the queue short of
\* its bound, instead of looping.
C5_RefillReturns ==
    (/\ pc = "refill"
     /\ \A e \in fs.episodes : get_video_duration(duration_cache, e) <= 1)
        => ENABLED RefillReturn

RECURSIVE summed_duration(_, _)
summed_duration(entries, k) ==
    IF k > Len(entries) THEN 0
    ELSE entries[k].duration + summed_duration(entries, k + 1)

\* C6: the summed duration of what get_fitting_episode(max_duration)
\* returns never exceeds max_duration, be it a single episode, a pair or
\* the filler fallback.
C6_FittingWithinBudget ==
    fitting_episodes # NoEntries
        => summed_duration(fitting_episodes, 1) <= max_episode_duration

\* C7: no clip of duration <= 1 is dispatched with a PLAY command from the
\* queue, from a fitting result or from filler playback.
C7_NoUnplayableDispatched ==
    \A i \in DOMAIN plays :
        plays[i].label # "SLOT" => plays[i].duration > 1

\* the episodes and the pairs of episodes that qualify for max_duration
probed(f) == get_video_duration(<<>>, f)
QualifyingSingles ==
    {e \in fs.episodes : 1 < probed(e) /\ probed(e) <= max_episode_duration}
pair_total(p) == LET a == CHOOSE x \in p : TRUE
                     b == CHOOSE x \in p : x # a
                 IN  probed(a) + probed(b)
QualifyingPairs ==
    {p \in SUBSET fs.episodes :
        /\ Cardinality(p) = 2
        /\ 2 < pair_total(p)
        /\ pair_total(p) <= max_episode_duration}

\* C8: whenever a pair of distinct episodes qualifies (2 < s <= max), a
\* pair is returned, also when a qualifying single episode leaves a
\* smaller gap, and the returned pair has the smallest gap of all pairs.
C8_PairPreferred ==
    (pc = "fitted" /\ QualifyingPairs # {})
        => /\ Len(fitting_episodes) = 2
           /\ {fitting_episodes[1].path, fitting_episodes[2].path}
                  \in QualifyingPairs
           /\ \A k \in 1..2 :
                 /\ fitting_episodes[k].type = "EPISODE"
                 /\ fitting_episodes[k].duration
                        = probed(fitting_episodes[k].path)
           /\ \A p \in QualifyingPairs :
                 pair_total(p) <= summed_duration(fitting_episodes, 1)

\* a pair was returned although a qualifying single leaves a smaller gap
C8_Witness ==
    /\ pc = "fitted"
    /\ Len(fitting_episodes) = 2
    /\ \E e \in QualifyingSingles :
          probed(e) > summed_duration(fitting_episodes, 1)

\* C9: with no qualifying pair and some qualifying single episode, exactly
\* one EPISODE entry is returned, of the largest qualifying duration,
\* whatever the traversal order; with neither, exactly one FILLER entry,
\* or None when there is no filler.
C9_SingleElseFiller ==
    (pc = "fitted" /\ QualifyingPairs = {})
        => IF QualifyingSingles # {}
           THEN /\ Len(fitting_episodes) = 1
                /\ fitting_episodes[1].type = "EPISODE"
                /\ fitting_episodes[1].path \in QualifyingSingles
                /\ fitting_episodes[1].duration
                       = probed(fitting_episodes[1].path)
                /\ \A e \in QualifyingSingles :
                      probed(e) <= fitting_episodes[1].duration
           ELSE IF fs.fillers # {}
           THEN /\ Len(fitting_episodes) = 1
                /\ fitting_episodes[1].type = "FILLER"
                /\ fitting_episodes[1].path \in fs.fillers
           ELSE fitting_episodes = NoEntries

\* the best of several qualifying singles was returned, no pair qualifying
C9_Witness ==
    /\ pc = "fitted"
    /\ QualifyingPairs = {}
    /\ Len(fitting_episodes) = 1
    /\ fitting_episodes[1].type = "EPISODE"
    /\ \E e \in QualifyingSingles :
          probed(e) < fitting_episodes[1].duration

\* C10: 0 <= time_until_next_slot() < 3600 s, and the result is the
\* distance from now to the next instant whose minute is SLOT_MINUTE and
\* whose second is zero.
C10_DistanceToNextSlot ==
    pc = "clocked"
        => LET now == clock * Milli + millisecond
               target == now + remaining
           IN  /\ 0 <= remaining
               /\ remaining < Hour * Milli
               /\ target % Milli = 0
               /\ MinuteOf(target \div Milli) = SLOT_MINUTE
               /\ SecondOf(target \div Milli) = 0

\* the part of C10 that bounds the result
SlotClockRange ==
    pc = "clocked" => 0 <= remaining /\ remaining < Hour * Milli

\* the distance in seconds from the instant c to the next instant at which
\* the minute is SLOT_MINUTE and the second is zero
slot_distance(c) == ((SLOT_MINUTE * 60 - (c % Hour)) + Hour) % Hour

\* C11: is_slot_time(now, last_hour) is true iff now.hour differs from
\* last_hour and the time to the next slot is within 60 seconds; firing
\* sets last_slot_hour to the hour of firing, and from then on
\* is_slot_time() is false at every later instant of that hour, however
\* often it is evaluated.
C11_SlotDueOncePerHour ==
    /\ pc = "due_checked"
          => observed.due =
                 (/\ HourOf(observed.now) # observed.last_hour
                  /\ slot_distance(observed.now) <= SLOT_TOLERANCE)
    /\ \A t \in slot_fires :
          t \div Hour = clock \div Hour
              => /\ last_slot_hour = HourOf(t)
                 /\ ~is_slot_time(clock, last_slot_hour)

\* slot minute 18: at 18:17:05 the slot was due, was fired, and
\* last_slot_hour is 18
C11_Witness ==
    /\ pc = "due_checked"
    /\ SLOT_MINUTE = 18
    /\ observed.now = 18 * Hour + 17 * 60 + 5
    /\ observed.due
    /\ observed.now \in slot_fires
    /\ last_slot_hour = 18

\* the slot was not due although the slot instant was within the
\* tolerance: it had been fired in this hour
C11_HeldBack ==
    /\ pc = "due_checked"
    /\ ~observed.due
    /\ slot_distance(observed.now) <= SLOT_TOLERANCE

\* C12: recent_fillers never holds more than 5 entries, the oldest being
\* evicted on overflow; get_random_filler() returns no filler that is in
\* recent_fillers unless every filler of the catalog is in it, and then
\* recent_fillers is cleared entirely and any filler of the catalog may be
\* returned.
C12_RecentWindow ==
    /\ Len(recent_fillers) <= RECENT_MAXLEN
    /\ (fs.fillers # {} /\ fs.fillers \subseteq Range(recent_fillers))
          => {fr.filler : fr \in get_random_filler(recent_fillers)}
                 = fs.fillers
    /\ pc = "rotated"
          => /\ IF observed.listed = {} THEN observed.filler = NoFile
                ELSE observed.filler \in observed.listed
             /\ IF observed.listed \subseteq Range(observed.before)
                THEN observed.after = <<>>
                ELSE /\ observed.filler \notin Range(observed.before)
                     /\ observed.after = observed.before
             /\ observed.filler # NoFile
                   => recent_fillers =
                          IF Len(observed.after) = RECENT_MAXLEN
                          THEN Append(Tail(observed.after), observed.filler)
                          ELSE Append(observed.after, observed.filler)

\* a catalog of 3 fillers, all of them recent: the call cleared
\* recent_fillers and returned one of the 3
C12_Witness ==
    /\ pc = "rotated"
    /\ Cardinality(observed.listed) = 3
    /\ Range(observed.before) = observed.listed
    /\ observed.after = <<>>
    /\ observed.filler \in Range(observed.before)

\* the oldest entry was evicted from a full window
C12_Evicted ==
    /\ pc = "rotated"
    /\ Len(observed.after) = RECENT_MAXLEN
    /\ Len(recent_fillers) = RECENT_MAXLEN
    /\ recent_fillers[RECENT_MAXLEN] = observed.filler

\* C13: for any path, the second and every later get_video_duration()
\* returns the value the first call returned, 0 after a failed first probe
\* included, ffprobe is run at most once per path, and no entry of
\* duration_cache is ever changed or removed.
C13_ProbeIdempotent ==
    /\ pc = "probed" => observed.value = observed.first[observed.file]
    /\ \A f \in ProbedFiles : observed.runs[f] <= 1
    /\ DOMAIN duration_cache = DOMAIN observed.first
    /\ \A f \in DOMAIN observed.first :
          duration_cache[f] = observed.first[f]

\* a path was probed again after ffprobe's answer for it had changed
C13_Witness ==
    /\ pc = "probed"
    /\ observed.runs[observed.file] = 1
    /\ ffprobe[observed.file] # observed.first[observed.file]
    /\ observed.value = observed.first[observed.file]

\* the degraded value 0 was returned again although ffprobe now succeeds
C13_FailedStays ==
    /\ pc = "probed"
    /\ observed.first[observed.file] = 0
    /\ ffprobe[observed.file] > 0
    /\ observed.value = 0

\* C14: a clip whose file no longer exists at play time is skipped: no
\* PLAY command is dispatched for a missing file, be it the popped queue
\* item, the next queued item played with it, or an entry of a fitting
\* result.
C14_MissingSkipped ==
    \A i \in DOMAIN plays :
        plays[i].label # "SLOT" => exists(plays[i].path)

\* the parts of C14 that hold: the popped item and the entries of a fitting
\* result are played only when their files exist
C14_CheckedPlays ==
    (pc \in {"next", "fitting"})
        => \A i \in DOMAIN plays : exists(plays[i].path)

\* C15: a missing storage root is never fatal: scheduler() does not raise
\* out of the process, also when it is started while EPISODES_FOLDER is
\* missing.
C15_EnumerationNeverFatal == pc # "exited"

\* C16: the control loop never blocks: play_filler_until_slot() always
\* returns, also when every filler is unplayable or too long for the time
\* that remains.
C16_FillerPhaseReturns ==
    (pc = "filler") ~> (pc = "filler_done" \/ clock >= MaxClock)

\* C17: every filler that get_random_filler() chose and that was played is
\* recorded in recent_fillers once its PLAY command is dispatched, in
\* play_filler_until_slot(), as the fitting fallback and as the slot clip.
C17_PlayedFillerRecorded ==
    \A i \in DOMAIN plays :
        plays[i].path \in FillerFiles => InSeq(plays[i].path, recent_fillers)

\* the part of C17 that holds: play_filler_until_slot() records what it
\* plays
C17_FillerLoopRecords ==
    (pc = "filler" /\ plays # <<>>)
        => recent_fillers[Len(recent_fillers)] = plays[1].path

\* C18: after the popped clip, the next queued clip is removed and played
\* only if its duration is strictly less than seconds_to_slot -
\* SLOT_DURATION; otherwise the queue's contents and order stay as they
\* are until the start of the next cycle.
C18_HeldItemStays ==
    /\ (pc = "refill" /\ ret = "pad" /\ plays # <<>>)
          => plays[1].duration < seconds_to_slot - SLOT_DURATION
    /\ (pc = "pad" /\ held # NotHeld /\ play_queue # <<>>)
          => play_queue[1].duration >= seconds_to_slot - SLOT_DURATION
    /\ held # NotHeld => play_queue = held[1]

\* the next cycle starts with the clip that was held still at the front
C18_Witness ==
    /\ pc = "cycle"
    /\ held # NotHeld
    /\ held[1] # <<>>
    /\ Head(play_queue) = Head(held[1])
    /\ slot_fires # {}

\* C19: an exception raised inside a cycle is caught at the loop boundary
\* and followed by the 10-second backoff and a new cycle, and the queue is
\* within its length bound when the loop resumes.
C19_BackoffResumes ==
    pc = "except"
        => /\ ENABLED Backoff
           /\ Len(play_queue) <= QUEUE_MAX_SIZE

\* the part of C19 that holds: the except clause always leads on to the
\* backoff and the next cycle
C19_Caught == pc = "except" => ENABLED Backoff

\* C20: every entry refill_queue() appends is an episode recorded with
\* type EPISODE, with a probed duration > 1.
C20_QueuedAsEpisode ==
    \A i \in DOMAIN play_queue :
        /\ play_queue[i].path \in EpisodeFiles
        /\ play_queue[i].type = "EPISODE"
        /\ play_queue[i].duration > 1

\* the parts of C20 that hold: the path and the duration of the entries
C20_QueuedPlayable ==
    \A i \in DOMAIN play_queue :
        /\ play_queue[i].path \in EpisodeFiles
        /\ play_queue[i].duration > 1

====
